---- MODULE Spec2Model ----
(***************************************************************************)
(* Model of the audio-to-score alignment core of the guitar practice       *)
(* companion: OnlineDTW, ChromaExtractor and ScoreFollower of              *)
(* src/guitar-pro/src/mir/alignment.py.                                    *)
(*                                                                         *)
(* Numbers.  Floats are modelled in fixed point:                           *)
(*   - a chroma component or a cosine cost x is the integer x * Scale;     *)
(*   - an accumulated cost a is the integer 2 * a * Scale (half units), so *)
(*     that the weight 1.5 of the double-speed transition stays integral;  *)
(*   - +inf is the sentinel Inf, absorbing under addition;                 *)
(*   - a time in seconds t is the integer t * TicksPerSecond.              *)
(* Indices (reference frames, pitch classes) are the source's 0-based      *)
(* indices: a vector is a function on 0..n-1.                              *)
(***************************************************************************)
EXTENDS Integers, Sequences, FiniteSets, TLC

\* ------------------------------------------------------------------------
\* Units of the fixed-point representation
\* ------------------------------------------------------------------------
Scale == 1000

Inf == 1000000000

\* ------------------------------------------------------------------------
\* Program constants
\* ------------------------------------------------------------------------
n_chroma == 12

fps == 10

\* a tick is half a reference frame period (0.05 s)
TicksPerSecond == 2 * fps

SafetyBuffer == 5

DefaultRadius == 50

FollowerRadius == 100

\* a tolerance of nothing, in ticks
NoteTolerance_none == 0 * TicksPerSecond

\* the 0.1 s tolerance of get_active_notes, in ticks
NoteTolerance == TicksPerSecond \div 10

SentinelId == 0 - 1

PitchClasses == 0 .. (n_chroma - 1)

\* ------------------------------------------------------------------------
\* Arithmetic helpers
\* ------------------------------------------------------------------------
Max(a, b) == IF a >= b THEN a ELSE b

Min(a, b) == IF a <= b THEN a ELSE b

\* np.ceil(n / d) for d > 0
CeilDiv(n, d) == 0 - ((0 - n) \div d)

\* Python's round(n / d) for d > 0: nearest integer, ties to the even one
RoundHalfEven(n, d) ==
    LET q == n \div d
        r == n - q * d
    IN  IF 2 * r < d THEN q
        ELSE IF 2 * r > d THEN q + 1
        ELSE IF q % 2 = 0 THEN q ELSE q + 1

RECURSIVE IsqrtIter(_, _)
IsqrtIter(x, r) ==
    LET nr == (r + x \div r) \div 2
    IN  IF nr >= r THEN r ELSE IsqrtIter(x, nr)

\* floor of the square root
Isqrt(x) == IF x <= 0 THEN 0 ELSE IsqrtIter(x, x)

RECURSIVE SumTo(_, _)
\* sum of f[0] .. f[n-1]
SumTo(f, n) == IF n = 0 THEN 0 ELSE f[n - 1] + SumTo(f, n - 1)

\* ------------------------------------------------------------------------
\* Chroma vectors (ChromaExtractor)
\* ------------------------------------------------------------------------
ZeroChroma == [c \in PitchClasses |-> 0]

\* np.linalg.norm of a 12-vector
Norm(v) == Isqrt(SumTo([c \in PitchClasses |-> v[c] * v[c]], n_chroma))

\* a normalisation that leaves the vector as it is
Normalize_skipped(v) == v

\* "norm = np.linalg.norm(chroma); if norm > 0: chroma /= norm"
Normalize(v) ==
    LET norm == Norm(v)
    IN  IF norm > 0 THEN [c \in PitchClasses |-> (v[c] * Scale) \div norm]
        ELSE v

\* np.dot of two 12-vectors
Dot(u, v) == SumTo([c \in PitchClasses |-> u[c] * v[c]], n_chroma) \div Scale

\* ChromaExtractor.compute.  The audio frame is given by what the FFT and the
\* box filter make of it: frame[c] is the summed FFT magnitude of the bins
\* of pitch class c (np.dot(fft, self.chroma_filter)); compute returns its
\* L2 normalisation, guarded against a zero norm.
compute(frame) == Normalize(frame)

\* Lower edges, in 1/100 Hz, of the frequency bands whose nearest MIDI note
\* is 69 + j (j = 0 .. 12): 440 * 2^((j - 0.5) / 12).
BandEdge ==
    [j \in 0 .. 12 |->
        CASE j = 0 -> 42748 [] j = 1 -> 45290 [] j = 2 -> 47983
          [] j = 3 -> 50836 [] j = 4 -> 53859 [] j = 5 -> 57061
          [] j = 6 -> 60454 [] j = 7 -> 64049 [] j = 8 -> 67858
          [] j = 9 -> 71893 [] j = 10 -> 76168 [] j = 11 -> 80697
          [] j = 12 -> 85495]

RECURSIVE NearestMidi(_)
\* int(round(69 + 12 * log2(f0 / 440))) for f0 given in 1/100 Hz, f0 > 0
NearestMidi(f) ==
    IF f < BandEdge[0] THEN NearestMidi(2 * f) - 12
    ELSE IF f >= BandEdge[12] THEN NearestMidi(f \div 2) + 12
    ELSE 69 + (CHOOSE j \in 0 .. 11 : BandEdge[j] <= f /\ f < BandEdge[j + 1])

\* compute_from_f0 without the floor on f0
compute_from_f0_no_floor(f0, confidence) ==
    LET chroma == IF f0 > 0 /\ confidence * 10 > Scale
                  THEN [c \in PitchClasses |->
                          IF c = NearestMidi(f0) % 12 THEN confidence ELSE 0]
                  ELSE ZeroChroma
    IN  Normalize(chroma)

\* ChromaExtractor.compute_from_f0; f0 in 1/100 Hz, confidence in 1/Scale
compute_from_f0(f0, confidence) ==
    LET chroma == IF f0 > 30 * 100 /\ confidence * 10 > Scale
                  THEN [c \in PitchClasses |->
                          IF c = NearestMidi(f0) % 12 THEN confidence ELSE 0]
                  ELSE ZeroChroma
    IN  Normalize(chroma)

\* ------------------------------------------------------------------------
\* OnlineDTW
\* ------------------------------------------------------------------------
\* An engine is the record of the fields of an OnlineDTW object.

\* "np.zeros(self.N) + np.inf" followed by "accumulated_cost[0] = 0"
\* an initial cost without its seed at frame 0
InitialCost_no_seed(N) == [i \in 0 .. (N - 1) |-> Inf]

InitialCost(N) == [i \in 0 .. (N - 1) |-> IF i = 0 THEN 0 ELSE Inf]

\* OnlineDTW.__init__(reference_features, radius)
OnlineDTW(reference_features, radius) ==
    LET N == Cardinality(DOMAIN reference_features)
    IN  [ref |-> reference_features,
         N |-> N,
         radius |-> DefaultRadius,
         current_position |-> 0,
         accumulated_cost |-> InitialCost(N)]

\* a reset that forgets the position
OnlineDTW_reset_keeps_position(d) ==
    [d EXCEPT !.accumulated_cost = InitialCost(d.N)]

\* a reset that forgets the cost vector
OnlineDTW_reset_keeps_cost(d) == [d EXCEPT !.current_position = 0]

\* OnlineDTW.reset
OnlineDTW_reset(d) ==
    [d EXCEPT !.current_position = 0,
              !.accumulated_cost = InitialCost(d.N)]

\* float addition of a finite weight to a possibly infinite accumulated cost
AddCost(a, w) == IF a = Inf THEN Inf ELSE a + w

\* "cost_vec = 1.0 - np.dot(self.ref, live_feature)"
cost_vec(d, live_feature) ==
    [i \in 0 .. (d.N - 1) |-> Scale - Dot(d.ref[i], live_feature)]

\* "start = max(0, self.current_position - self.radius)"
WindowStart(d) == Max(0, d.current_position - d.radius)

\* "end = min(self.N, self.current_position + self.radius * 2)"
WindowEnd(d) == Min(d.N, d.current_position + d.radius * 2)

\* prev_costs with the stay transition weighted like the diagonal one
prev_costs_stay_unweighted(acc, cost, N, i) ==
    (IF i < N THEN << AddCost(acc[i], 2 * cost[i]) >> ELSE << >>)
    \o (IF i > 0 THEN << AddCost(acc[i - 1], 2 * cost[i]) >> ELSE << >>)
    \o (IF i > 1 THEN << AddCost(acc[i - 2], 3 * cost[i]) >> ELSE << >>)

\* The list prev_costs of the loop body for reference index i; weights are
\* in half units (stay 2.0, diagonal 1.0, double speed 1.5).
prev_costs(acc, cost, N, i) ==
    (IF i < N THEN << AddCost(acc[i], 4 * cost[i]) >> ELSE << >>)
    \o (IF i > 0 THEN << AddCost(acc[i - 1], 2 * cost[i]) >> ELSE << >>)
    \o (IF i > 1 THEN << AddCost(acc[i - 2], 3 * cost[i]) >> ELSE << >>)

\* Python's min of a non-empty list
MinOfList(s) ==
    CHOOSE m \in {s[k] : k \in 1 .. Len(s)} :
        \A k \in 1 .. Len(s) : m <= s[k]

\* new_accumulated after the loop over range(start, end)
new_accumulated(d, live_feature) ==
    LET cost == cost_vec(d, live_feature)
        start == WindowStart(d)
        end == WindowEnd(d)
    IN  [i \in 0 .. (d.N - 1) |->
            IF start <= i /\ i < end
            THEN LET pc == prev_costs(d.accumulated_cost, cost, d.N, i)
                 IN  IF pc # << >> THEN MinOfList(pc) ELSE Inf
            ELSE Inf]

\* np.argmin(a[start:end]): offset of the first minimum of the slice
argmin_slice(a, start, end) ==
    (CHOOSE k \in start .. (end - 1) :
        /\ \A j \in start .. (end - 1) : a[k] <= a[j]
        /\ \A j \in start .. (k - 1) : a[j] > a[k]) - start

\* best_idx without the window offset
best_idx_no_offset(a, start, end) == argmin_slice(a, start, end)

\* "best_idx = np.argmin(self.accumulated_cost[start:end]) + start"
best_idx(a, start, end) == argmin_slice(a, start, end) + start

\* OnlineDTW.step: self after the step, and the value returned
OnlineDTW_step(d, live_feature) ==
    LET new == new_accumulated(d, live_feature)
        best == best_idx(new, WindowStart(d), WindowEnd(d))
    IN  [self |-> [d EXCEPT !.accumulated_cost = new,
                            !.current_position = best],
         ret |-> best]

\* ------------------------------------------------------------------------
\* Note events as they arrive from the score renderer
\* ------------------------------------------------------------------------
\* A raw event is a sequence of fields; a field is a pair <<kind, value>>:
\* a number, a float NaN, or a value that is no number (a string such as
\* "n1", or None).  Times are in ticks.
Num(n) == << "num", n >>

NaN == << "nan", 0 >>

Str == << "str", 0 >>

\* float(x) succeeds (a number or a NaN)
float_ok(x) == x[1] \in {"num", "nan"}

\* int(x) succeeds; int(float('nan')) raises ValueError
int_ok(x) == x[1] = "num"

\* np.isnan(x)
isnan(x) == x[1] = "nan"

\* An event reaches "valid_events.append": it has at least 3 fields, the
\* four coercions of the try block raise nothing, start and dur are no NaN.
PassesFilter(e) ==
    /\ Len(e) >= 3
    /\ float_ok(e[1])
    /\ float_ok(e[2])
    /\ int_ok(e[3])
    /\ (Len(e) > 3 => int_ok(e[4]))
    /\ ~ (isnan(e[1]) \/ isnan(e[2]))

\* "[start, dur, pitch, note_id]", note_id = -1 when the field is missing
CleanEvent(e) ==
    << e[1][2], e[2][2], e[3][2], IF Len(e) > 3 THEN e[4][2] ELSE SentinelId >>

RECURSIVE valid_events(_)
\* the list valid_events after the filter loop
valid_events(evs) ==
    IF evs = << >> THEN << >>
    ELSE LET rest == valid_events(Tail(evs))
         IN  IF PassesFilter(Head(evs))
             THEN << CleanEvent(Head(evs)) >> \o rest
             ELSE rest

RECURSIVE max_end(_)
\* "max_end = 0; for ...: max_end = max(max_end, start + dur)"
max_end(valid) ==
    IF valid = << >> THEN 0
    ELSE Max(max_end(Tail(valid)), Head(valid)[1] + Head(valid)[2])

\* n_frames rounded down instead of up
n_frames_floor(total_duration) ==
    (total_duration * fps) \div TicksPerSecond + SafetyBuffer

\* "n_frames = int(np.ceil(total_duration * fps)) + 5"
n_frames(total_duration) ==
    CeilDiv(total_duration * fps, TicksPerSecond) + SafetyBuffer

\* "int(round(t * fps))" for a time t in ticks
FrameOf(t) == RoundHalfEven(t * fps, TicksPerSecond)

\* The rows written by "ref_features[start_frame:min(end_frame + 1,
\* n_frames), chroma_idx] = 1.0": nothing unless 0 <= start_frame < n_frames;
\* a negative slice stop counts from the end of the array.
MarkedRows(ev, n) ==
    LET start_frame == FrameOf(ev[1])
        end_frame == FrameOf(ev[1] + ev[2])
        stop == Min(end_frame + 1, n)
        pystop == IF stop < 0 THEN Max(0, stop + n) ELSE stop
    IN  IF 0 <= start_frame /\ start_frame < n
        THEN start_frame .. (pystop - 1)
        ELSE {}

RECURSIVE FillFeatures(_, _, _)
\* the loop "4. Fill features" over the events, first to last
FillFeatures(ref, valid, n) ==
    IF valid = << >> THEN ref
    ELSE LET ev == Head(valid)
             rows == MarkedRows(ev, n)
             filled == [r \in 0 .. (n - 1) |->
                          IF r \in rows
                          THEN [ref[r] EXCEPT ![ev[3] % 12] = Scale]
                          ELSE ref[r]]
         IN  FillFeatures(filled, Tail(valid), n)

\* The matrix given to the second load_score_features call: the binary
\* occupancy matrix with every row of non-zero norm divided by its norm.
ReferenceFeatures(valid) ==
    LET n == n_frames(max_end(valid))
        ref_features == FillFeatures([r \in 0 .. (n - 1) |-> ZeroChroma],
                                     valid, n)
    IN  [r \in 0 .. (n - 1) |-> Normalize(ref_features[r])]

RECURSIVE ActiveScan(_, _)
\* the loop of get_active_notes over self.events; 'active' in append order
ActiveScan(evs, time) ==
    IF evs = << >> THEN << >>
    ELSE LET event == Head(evs)
             rest == ActiveScan(Tail(evs), time)
         IN  IF /\ Len(event) >= 4
                /\ event[1] - NoteTolerance <= time
                /\ time <= event[1] + event[2] + NoteTolerance
             THEN << [start |-> event[1], dur |-> event[2],
                      pitch |-> event[3], id |-> event[4]] >> \o rest
             ELSE rest

\* a not-ready result that is not neutral
not_ready_result_stale == << 0, [c \in PitchClasses |-> Scale] >>

\* "return 0.0, np.zeros(12)" of process_frame while not ready
not_ready_result == << 0, ZeroChroma >>

\* np.max of a 12-vector
np_max(chroma) ==
    CHOOSE m \in {chroma[c] : c \in PitchClasses} :
        \A c \in PitchClasses : m >= chroma[c]

\* a peakiness test that lets everything through
peakiness_low_never(chroma) == FALSE

\* "mean_val = np.mean(chroma) + 1e-6; peakiness = np.max(chroma) / mean_val;
\* peakiness < 2.5".  With 1e-6 = 1 / Scale^2, mean_val is
\* D / (n_chroma * Scale^2) for the integer D below, which is never 0.
peakiness_low(chroma) ==
    LET D == Scale * SumTo(chroma, n_chroma) + n_chroma
        m == np_max(chroma)
    IN  IF D > 0 THEN 2 * n_chroma * Scale * m < 5 * D
        ELSE 2 * n_chroma * Scale * m > 5 * D

\* ScoreFollower.check_chroma_hit; chroma is << >> for None, threshold in
\* 1/Scale
check_chroma_hit(chroma, target_pitch, threshold) ==
    IF DOMAIN chroma # PitchClasses THEN FALSE
    ELSE IF np_max(chroma) * 10 < 3 * Scale THEN FALSE
    ELSE IF peakiness_low(chroma) THEN FALSE
    ELSE LET target_idx == target_pitch % 12
             energy == chroma[target_idx]
             left == chroma[(target_idx - 1) % 12]
             right == chroma[(target_idx + 1) % 12]
         IN  IF energy > threshold THEN TRUE
             ELSE IF 2 * (left + energy + right) > 3 * threshold THEN TRUE
             ELSE FALSE

\* estimated_time for a reference sampled at 20 Hz
estimated_time_20hz(frame_idx) == (frame_idx * TicksPerSecond) \div 20

\* "estimated_time = frame_idx * 0.1", in ticks
estimated_time(frame_idx) == (frame_idx * TicksPerSecond) \div 10

\* ------------------------------------------------------------------------
\* PitchTracker (src/guitar-pro/src/mir/pitch.py) and RMVPE
\* ------------------------------------------------------------------------
\* A call ends by returning a value or by raising an exception.
Return(v) == [kind |-> "return", value |-> v]

Raise(e) == [kind |-> "raise", value |-> e]

\* "if len(audio) < 1024"
MinFrame == 1024

\* "min_freq = 50" of _yin_custom
min_freq == 50

\* What an estimator outside this repository (the ONNX session, crepe,
\* librosa) does on a frame is an input of the model: it raises, it yields
\* nothing, or it yields a frequency (1/100 Hz) and a confidence (1/Scale).
Raises == [kind |-> "raise", f0 |-> 0, conf |-> 0]

Empty == [kind |-> "empty", f0 |-> 0, conf |-> 0]

Estimate(f0, conf) == [kind |-> "estimate", f0 |-> f0, conf |-> conf]

\* RMVPE.predict on a ready engine: out is what the session and the peak
\* search produce; below the 0.1 threshold the frequency is withheld
RMVPE_predict(out) ==
    IF out.kind = "raise" THEN Raise("RuntimeError")
    ELSE IF out.kind = "empty" THEN Return(<< 0, 0 >>)
    ELSE IF out.conf * 10 < Scale THEN Return(<< 0, out.conf >>)
    ELSE Return(<< out.f0, out.conf >>)

\* "tau_min = int(sr / max_freq)" with max_freq = sr // 2
tau_min(sr) == sr \div (sr \div 2)

\* "tau_max = int(sr / min_freq)"
tau_max(sr) == sr \div min_freq

\* len(a[lo:hi]) for an array a of length n and 0 <= lo <= hi
SliceLen(n, lo, hi) == Max(0, Min(n, hi) - Min(n, lo))

\* the lags for which "audio[:window_size] - audio[tau:tau + window_size]"
\* cannot be broadcast: the second slice is cut short by the end of the frame
UnbroadcastableLags(sr, n) ==
    LET window_size == n \div 2
    IN  {tau \in 1 .. (tau_max(sr) - 1) :
            LET L == SliceLen(n, tau, tau + window_size)
            IN  L # window_size /\ L # 1 /\ window_size # 1}

\* PitchTracker._yin_custom on a frame of n samples; out tells which lag the
\* CMNDF search ends at ("first": tau_min, "last": tau_max - 1) and the
\* confidence it computes
yin_custom(sr, n, out) ==
    IF UnbroadcastableLags(sr, n) # {} THEN Raise("ValueError")
    ELSE IF tau_max(sr) <= tau_min(sr) THEN Raise("ValueError")
    ELSE LET tau_found == IF out.lag = "first" THEN tau_min(sr)
                          ELSE tau_max(sr) - 1
             freq == IF tau_found > 0 THEN (sr * 100) \div tau_found ELSE 0
         IN  Return(<< freq, out.conf >>)

\* the result of a tier together with the estimators that were run
Outcome(res, tier, ran) ==
    [kind |-> res.kind, value |-> res.value, tier |-> tier, ran |-> ran]

\* PitchTracker._fallback_pitch; ran: the estimators run before it
fallback_pitch(pt, n, env, ran) ==
    IF ~ pt.has_librosa
    THEN Outcome(yin_custom(pt.sample_rate, n, env.yin), "yin_custom",
                 ran \o << "yin_custom" >>)
    ELSE IF env.librosa.kind # "estimate"
    THEN Outcome(yin_custom(pt.sample_rate, n, env.yin), "yin_custom",
                 ran \o << "librosa_yin", "yin_custom" >>)
    ELSE Outcome(Return(<< env.librosa.f0, env.librosa.conf >>), "librosa_yin",
                 ran \o << "librosa_yin" >>)

\* the CREPE block of predict and what follows it
predict_from_crepe(pt, n, env, ran) ==
    IF ~ pt.HAS_CREPE THEN fallback_pitch(pt, n, env, ran)
    ELSE IF env.crepe.kind = "estimate"
    THEN Outcome(Return(<< env.crepe.f0, env.crepe.conf >>), "crepe",
                 ran \o << "crepe" >>)
    ELSE fallback_pitch(pt, n, env, ran \o << "crepe" >>)

\* PitchTracker.predict on a frame of n samples
predict(pt, n, env) ==
    IF n < MinFrame THEN Outcome(Return(<< 0, 0 >>), "none", << >>)
    ELSE IF ~ pt.rmvpe_ready THEN predict_from_crepe(pt, n, env, << >>)
    ELSE LET r == RMVPE_predict(env.rmvpe)
         IN  IF r.kind = "return" /\ r.value[2] * 10 > Scale
             THEN Outcome(r, "rmvpe", << "rmvpe" >>)
             ELSE predict_from_crepe(pt, n, env, << "rmvpe" >>)

\* ------------------------------------------------------------------------
\* RingBuffer (src/guitar-pro/src/audio/audio_io.py)
\* ------------------------------------------------------------------------
\* A ring buffer is the record of the fields of a RingBuffer object; buffer
\* is a function on 0 .. capacity - 1.  A block of samples is a sequence.

\* RingBuffer.__init__
RingBuffer(capacity) ==
    [buffer |-> [i \in 0 .. (capacity - 1) |-> 0],
     capacity |-> capacity,
     write_pos |-> 0,
     available |-> 0]

\* "buffer[at:at + count] = data[from:from + count]"
Store(buffer, at, data, from, count) ==
    [i \in DOMAIN buffer |->
        IF at <= i /\ i < at + count THEN data[from + (i - at) + 1]
        ELSE buffer[i]]

\* a write of a block longer than the buffer that keeps the write position
RingBuffer_write_keeps_pos(rb, data) ==
    LET n == Len(data)
        cap == rb.capacity
    IN  [rb EXCEPT !.buffer = Store(rb.buffer, 0, data, n - Min(n, cap),
                                    Min(n, cap)),
                   !.available = Min(rb.available + n, cap)]

\* a write that counts available without the cap at capacity
RingBuffer_write_counts_on(rb, data) ==
    LET n == Len(data)
        cap == rb.capacity
        kept == Min(n, cap)
        first == Min(kept, cap - rb.write_pos)
        at == IF n >= cap THEN 0 ELSE rb.write_pos
    IN  [rb EXCEPT
            !.buffer = Store(Store(rb.buffer, at, data, n - kept,
                                   IF n >= cap THEN cap ELSE first),
                             0, data, n - kept + first,
                             IF n >= cap THEN 0 ELSE kept - first),
            !.write_pos = IF n >= cap THEN 0 ELSE (rb.write_pos + n) % cap,
            !.available = rb.available + n]

\* RingBuffer.write
RingBuffer_write(rb, data) ==
    LET n == Len(data)
        cap == rb.capacity
        end == rb.write_pos + n
        first == cap - rb.write_pos
    IN  IF n >= cap
        THEN [rb EXCEPT !.buffer = Store(rb.buffer, 0, data, n - cap, cap),
                        !.write_pos = 0,
                        !.available = cap]
        ELSE [rb EXCEPT
                !.buffer =
                    IF end <= cap
                    THEN Store(rb.buffer, rb.write_pos, data, 0, n)
                    ELSE Store(Store(rb.buffer, rb.write_pos, data, 0, first),
                               0, data, first, n - first),
                !.write_pos = end % cap,
                !.available = Min(rb.available + n, cap)]

\* the copy made by read: n samples of the buffer from read_start on,
\* wrapping at the end of the array
CopyOut(buffer, capacity, read_start, n) ==
    IF read_start + n <= capacity
    THEN [j \in 1 .. n |-> buffer[read_start + j - 1]]
    ELSE LET first == capacity - read_start
         IN  [j \in 1 .. first |-> buffer[read_start + j - 1]]
             \o [j \in 1 .. (n - first) |-> buffer[j - 1]]

\* RingBuffer.read; None is [ok |-> FALSE]
RingBuffer_read(rb, n) ==
    IF rb.available < n THEN [ok |-> FALSE, data |-> << >>]
    ELSE [ok |-> TRUE,
          data |-> CopyOut(rb.buffer, rb.capacity,
                           (rb.write_pos - n) % rb.capacity, n)]

\* "data = np.zeros(n); data[-len(actual):] = actual"
PadLeft(actual, n) == [j \in 1 .. (n - Len(actual)) |-> 0] \o actual

\* RingBuffer.read_latest
RingBuffer_read_latest(rb, n) ==
    LET result == RingBuffer_read(rb, n)
    IN  IF result.ok THEN result.data
        ELSE IF rb.available > 0
        THEN LET actual == RingBuffer_read(rb, rb.available)
             IN  IF actual.ok THEN PadLeft(actual.data, n)
                 ELSE PadLeft(<< >>, n)
        ELSE PadLeft(<< >>, n)

\* ------------------------------------------------------------------------
\* Inputs
\* ------------------------------------------------------------------------
MaxLoads == 2

MaxFrames == 3

\* note events, times in ticks
EvA == << Num(0), Num(20), Num(69), Num(1) >>

EvN1 == << Num(0), Num(20), Num(69), Str >>

EvA3 == << Num(0), Num(20), Num(69) >>

EvD == << Num(20), Num(20), Num(62), Num(2) >>

EvShort == << Num(0), Num(20) >>

EvNaN == << NaN, Num(20), Num(60), Num(3) >>

EvStrStart == << Str, Num(20), Num(60), Num(3) >>

EvStrPitch == << Num(0), Num(20), Str, Num(3) >>

EvNeg == << Num(0 - 40), Num(20), Num(64), Num(5) >>

EvZero == << Num(0), Num(0), Num(64), Num(6) >>

EvHalf == << Num(5), Num(10), Num(64), Num(7) >>

EvBack == << Num(6), Num(0 - 12), Num(65), Num(8) >>

EvEarly == << Num(0 - 10), Num(40), Num(67), Num(9) >>

\* the score of scripts/debug_canon_simulation.py: D4, A3, B3, F#3
CanonScore ==
    << << Num(0), Num(20), Num(62), Num(1) >>,
       << Num(20), Num(20), Num(57), Num(2) >>,
       << Num(40), Num(20), Num(59), Num(3) >>,
       << Num(60), Num(20), Num(54), Num(4) >> >>

\* the score of scripts/verify_rmvpe.py: one A4 with a string id
N1Score == << EvN1 >>

ScoreInputs ==
    { << >>, N1Score, << EvA >>, << EvA3 >>, CanonScore,
      << EvShort, EvNaN >>, << EvStrStart, EvA, EvStrPitch >>,
      << EvNeg >>, << EvZero >>, << EvA, EvD >>, << EvHalf, EvBack >>,
      << EvEarly >>, << EvNaN, EvD, EvA3 >> }

\* audio frames, given by their per-pitch-class FFT magnitude sums
Silence == ZeroChroma

Tone(pc) == [c \in PitchClasses |-> IF c = pc THEN 500 ELSE 0]

Mix == [c \in PitchClasses |-> IF c = 9 THEN 800 ELSE IF c = 4 THEN 600 ELSE 0]

\* a tone with a tenth of its energy in the next pitch class up
LeakyTone(pc) ==
    [c \in PitchClasses |->
        IF c = pc THEN 1000 ELSE IF c = (pc + 1) % 12 THEN 100 ELSE 0]

Frames == {Silence, Tone(9), Tone(2), Mix}

QueryTimes == {0 - 3, 0 - 2, 0, 10, 22, 23}

\* a score longer than the search window: A for 8 s, then D for 8 s
LongScore ==
    << << Num(0), Num(160), Num(69), Num(1) >>,
       << Num(160), Num(160), Num(62), Num(2) >> >>

\* ReferenceFeatures of the scores above, computed once
ReferenceTable ==
    [valid \in {valid_events(evs) : evs \in ScoreInputs \cup {LongScore}} |->
        ReferenceFeatures(valid)]

\* ------------------------------------------------------------------------
\* State
\* ------------------------------------------------------------------------
VARIABLES
    events,     \* ScoreFollower.events; << >> while the attribute is unset
    dtw,        \* ScoreFollower.dtw: << >> for None, << engine >> otherwise
    is_ready,   \* ScoreFollower.is_ready
    refSource,  \* history: the valid events self.dtw.ref was built from
    lastScore,  \* history: the argument of the latest load call
    lastOp,     \* the latest call
    lastArg,    \* its argument (for reset: the position it found)
    lastRet,    \* what it returned (for a load: the branch it took)
    nloads,     \* number of load calls so far
    nframes,    \* number of process_frame calls so far
    twin,       \* a second OnlineDTW over the same reference
    script,     \* position in a scripted session
    ring,       \* AudioIO.ring_buffer
    written,    \* history: the blocks given to RingBuffer.write, in order
    producer,   \* the audio callback thread: where it is in write
    consumer,   \* the analysis thread: where it is in read_latest
    btn_practice,      \* MainWindow.btn_practice.isChecked()
    practice_session,  \* MainWindow.practice_session
    score_view,        \* ScoreView: _is_ready and _pending_commands
    page,       \* history: the commands given to runJavaScript, in order
    issued      \* history: the commands given to ScoreView._run_js, in order

vars ==
    << events, dtw, is_ready, refSource, lastScore, lastOp, lastArg, lastRet,
       nloads, nframes, twin, script, ring, written, producer, consumer,
       btn_practice, practice_session, score_view, page, issued >>

\* the audio side of the state
audio == << ring, written, producer, consumer >>

\* the window side of the state
window == << btn_practice, practice_session, score_view, page, issued >>

RingCapacity == 4

IdleProducer == [pc |-> "idle", data |-> << >>, end |-> 0]

IdleConsumer ==
    [pc |-> "idle", n |-> 0, m |-> 0, padding |-> FALSE, read_start |-> 0]

\* AudioIO.__init__: an empty ring buffer, no call in progress
AudioInit ==
    /\ ring = RingBuffer(RingCapacity)
    /\ written = << >>
    /\ producer = IdleProducer
    /\ consumer = IdleConsumer

\* PracticeSession.__init__
PracticeSession ==
    [hits |-> 0, misses |-> 0, combo |-> 0, max_combo |-> 0, score |-> 0,
     total_notes |-> 0, active |-> FALSE]

\* ScoreView.__init__: the page is not ready and nothing is buffered
ScoreView == [is_ready |-> FALSE, pending_commands |-> << >>]

\* MainWindow.__init__: the practice button is unchecked, a fresh session
\* and a fresh score view
WindowInit ==
    /\ btn_practice = FALSE
    /\ practice_session = PracticeSession
    /\ score_view = ScoreView
    /\ page = << >>
    /\ issued = << >>

\* ScoreFollower.__init__
Init ==
    /\ events = << >>
    /\ dtw = << >>
    /\ is_ready = FALSE
    /\ refSource = << >>
    /\ lastScore = << >>
    /\ lastOp = "init"
    /\ lastArg = << >>
    /\ lastRet = << >>
    /\ nloads = 0
    /\ nframes = 0
    /\ twin = << >>
    /\ script = << >>
    /\ AudioInit
    /\ WindowInit

\* ------------------------------------------------------------------------
\* Operations of ScoreFollower
\* ------------------------------------------------------------------------
\* a load that carries the position of the engine it replaces over
load_score_features_keeps_position(features) ==
    LET fresh == OnlineDTW(features, FollowerRadius)
    IN  << IF dtw # << >> /\ dtw[1].current_position < fresh.N
           THEN [fresh EXCEPT !.current_position = dtw[1].current_position]
           ELSE fresh >>

\* ScoreFollower.load_score_features: the engine it installs
load_score_features(features) == << OnlineDTW(features, FollowerRadius) >>

\* ScoreFollower.load_score_from_midi_events on the follower's fields
LoadEffect(evs) ==
    LET valid == valid_events(evs)
        total_duration == max_end(valid)
    IN  IF evs = << >>
        THEN /\ lastRet' = "empty events list"
             /\ UNCHANGED << events, dtw, is_ready, refSource >>
        ELSE IF valid = << >>
        THEN /\ lastRet' = "no valid events"
             /\ UNCHANGED << events, dtw, is_ready, refSource >>
        ELSE /\ events' = valid
             /\ IF total_duration <= 0
                THEN /\ lastRet' = "abort: total duration is 0"
                     /\ UNCHANGED << dtw, is_ready, refSource >>
                ELSE /\ lastRet' = "reference loaded"
                     /\ dtw' = load_score_features(ReferenceTable[valid])
                     /\ is_ready' = TRUE
                     /\ refSource' = valid

load_score_from_midi_events(evs) ==
    /\ nloads < MaxLoads
    /\ LoadEffect(evs)
    /\ lastScore' = evs
    /\ lastOp' = "load_score_from_midi_events"
    /\ lastArg' = evs
    /\ nloads' = nloads + 1
    /\ UNCHANGED << nframes, twin, script >>
    /\ UNCHANGED audio
    /\ UNCHANGED window

\* ScoreFollower.process_frame on the follower's fields
FrameEffect(audio_frame) ==
    IF ~ is_ready
    THEN /\ lastRet' = not_ready_result
         /\ UNCHANGED dtw
    ELSE LET chroma == compute(audio_frame)
             stepped == OnlineDTW_step(dtw[1], chroma)
         IN  /\ dtw' = << stepped.self >>
             /\ lastRet' = << estimated_time(stepped.ret), chroma >>

\* a process_frame call: its effect and its record in the history variables
FrameCall(audio_frame) ==
    /\ FrameEffect(audio_frame)
    /\ lastOp' = "process_frame"
    /\ lastArg' = audio_frame
    /\ nframes' = nframes + 1
    /\ UNCHANGED << events, is_ready, refSource, lastScore, nloads, twin >>
    /\ UNCHANGED audio
    /\ UNCHANGED window

process_frame(audio_frame) ==
    /\ nframes < MaxFrames
    /\ FrameCall(audio_frame)
    /\ UNCHANGED script

\* ScoreFollower.reset
reset ==
    /\ dtw' = IF dtw # << >> THEN << OnlineDTW_reset(dtw[1]) >> ELSE dtw
    /\ lastOp' = "reset"
    /\ lastArg' = IF dtw # << >> THEN dtw[1].current_position ELSE 0 - 1
    /\ lastRet' = << >>
    /\ UNCHANGED << events, is_ready, refSource, lastScore, nloads, nframes,
                    twin, script >>
    /\ UNCHANGED audio
    /\ UNCHANGED window

\* ScoreFollower.get_active_notes
get_active_notes(time) ==
    /\ lastRet' = IF events = << >> THEN << >> ELSE ActiveScan(events, time)
    /\ lastOp' = "get_active_notes"
    /\ lastArg' = time
    /\ UNCHANGED << events, dtw, is_ready, refSource, lastScore, nloads,
                    nframes, twin, script >>
    /\ UNCHANGED audio
    /\ UNCHANGED window

Next ==
    \/ \E evs \in ScoreInputs : load_score_from_midi_events(evs)
    \/ \E audio_frame \in Frames : process_frame(audio_frame)
    \/ reset
    \/ \E time \in QueryTimes : get_active_notes(time)

Spec == Init /\ [][Next]_vars

\* ------------------------------------------------------------------------
\* Sessions on a loaded score
\* ------------------------------------------------------------------------
\* the follower after ScoreFollower() and one successful
\* load_score_from_midi_events(evs)
Loaded(evs) ==
    /\ events = valid_events(evs)
    /\ dtw = load_score_features(ReferenceTable[valid_events(evs)])
    /\ is_ready = TRUE
    /\ refSource = valid_events(evs)
    /\ lastScore = evs
    /\ lastOp = "load_score_from_midi_events"
    /\ lastArg = evs
    /\ lastRet = "reference loaded"
    /\ nloads = 1
    /\ nframes = 0
    /\ AudioInit
    /\ WindowInit

\* --- a long score: LeadIn silent frames, then MaxTail frames of any kind ---
LeadIn == 52

MaxTail == 2

InitLong ==
    /\ Loaded(LongScore)
    /\ twin = << >>
    /\ script = << >>

LongFrame(audio_frame) ==
    /\ nframes < LeadIn + MaxTail
    /\ nframes < LeadIn => audio_frame = Silence
    /\ FrameCall(audio_frame)
    /\ UNCHANGED script

NextLong ==
    \/ \E audio_frame \in Frames : LongFrame(audio_frame)
    \/ reset

SpecLong == InitLong /\ [][NextLong]_vars

\* --- two engines over one reference: 'twin' is stepped, reset, and then ---
\* --- stepped together with the fresh engine 'dtw'                       ---
MaxWarm == 2

MaxLock == 3

TwinScores == { << EvA >>, << EvA, EvD >>, CanonScore }

InitTwin ==
    /\ \E evs \in TwinScores : Loaded(evs)
    /\ twin = dtw
    /\ script = << "warm", 0, 0 >>

\* twin.step(compute(audio_frame)) before the reset
TwinWarm(audio_frame) ==
    /\ script[1] = "warm"
    /\ script[2] < MaxWarm
    /\ LET stepped == OnlineDTW_step(twin[1], compute(audio_frame))
       IN  /\ twin' = << stepped.self >>
           /\ lastRet' = << stepped.ret >>
    /\ script' = << "warm", script[2] + 1, 0 >>
    /\ lastOp' = "twin.step"
    /\ lastArg' = audio_frame
    /\ UNCHANGED << events, dtw, is_ready, refSource, lastScore, nloads,
                    nframes >>
    /\ UNCHANGED audio
    /\ UNCHANGED window

\* twin.reset()
TwinReset ==
    /\ script[1] = "warm"
    /\ twin' = << OnlineDTW_reset(twin[1]) >>
    /\ script' = << "lock", script[2], 0 >>
    /\ lastOp' = "twin.reset"
    /\ lastArg' = twin[1].current_position
    /\ lastRet' = << >>
    /\ UNCHANGED << events, dtw, is_ready, refSource, lastScore, nloads,
                    nframes >>
    /\ UNCHANGED audio
    /\ UNCHANGED window

\* dtw.step(live) and twin.step(live) on the same live chroma vector
TwinStep(audio_frame) ==
    /\ script[1] = "lock"
    /\ script[3] < MaxLock
    /\ LET live == compute(audio_frame)
           a == OnlineDTW_step(dtw[1], live)
           b == OnlineDTW_step(twin[1], live)
       IN  /\ dtw' = << a.self >>
           /\ twin' = << b.self >>
           /\ lastRet' = << a.ret, b.ret >>
    /\ script' = << "lock", script[2], script[3] + 1 >>
    /\ lastOp' = "both.step"
    /\ lastArg' = audio_frame
    /\ UNCHANGED << events, is_ready, refSource, lastScore, nloads, nframes >>
    /\ UNCHANGED audio
    /\ UNCHANGED window

NextTwin ==
    \/ \E audio_frame \in Frames : TwinWarm(audio_frame)
    \/ TwinReset
    \/ \E audio_frame \in Frames : TwinStep(audio_frame)

SpecTwin == InitTwin /\ [][NextTwin]_vars

\* --- the session of scripts/debug_canon_simulation.py: the four notes of ---
\* --- CanonScore played in order as pure tones, one second of frames each ---
\* frames per second: the reference rate, the analysis timer, 1024-sample
\* blocks at 44.1 kHz
FrameRates == {10, 30, 43}

\* how the energy of a played note is spread over the pitch classes
Timbres == {"pure", "leaky"}

\* script = << frames per second, frames captured so far, timbre >>
InitCanon ==
    /\ Loaded(CanonScore)
    /\ twin = << >>
    /\ \E rate \in FrameRates, timbre \in Timbres :
          script = << rate, 0, timbre >>

\* the note sounding while frame number k (from 0) is captured
CanonNote(rate, k) == events[(k \div rate) + 1]

\* the frame captured while a note of the given MIDI pitch sounds
PlayedFrame(pitch, timbre) ==
    IF timbre = "pure" THEN Tone(pitch % 12) ELSE LeakyTone(pitch % 12)

CanonFrame ==
    /\ script[2] < Len(CanonScore) * script[1]
    /\ FrameCall(PlayedFrame(CanonNote(script[1], script[2])[3], script[3]))
    /\ script' = << script[1], script[2] + 1, script[3] >>

NextCanon == CanonFrame

SpecCanon == InitCanon /\ [][NextCanon]_vars

\* --- the feature functions on their own: chroma extraction from a frame ---
\* --- and from a detected pitch, and the spectral hit test               ---
Flat(v) == [c \in PitchClasses |-> v]

\* a frame with energy in every pitch class (broadband noise over a tone)
Noisy == [c \in PitchClasses |-> IF c = 4 THEN 900 ELSE 37 * (c + 1)]

FeatureFrames ==
    Frames \cup {LeakyTone(6), Noisy, Flat(40), Flat(250), Tone(0), Tone(11)}

\* detected pitches in 1/100 Hz: none, below and at the 30 Hz floor, just
\* above it, E2, A2, D3, F#3, C4, E4, A4, a sharp A4, a flat A#4, A5, C6
F0Inputs ==
    {0 - 10000, 0, 2000, 3000, 3001, 8241, 11000, 14683, 18500, 26163, 32963,
     44000, 45000, 46000, 88000, 104650}

Confidences == {0, 100, 101, 500, Scale}

\* a tone between A and A#: its energy falls in two adjacent pitch classes
Detuned == [c \in PitchClasses |-> IF c \in {9, 10} THEN 500 ELSE 0]

HitChromas ==
    {Flat(v) : v \in {0 - 500, 0, 100, 299, 300, 700, Scale, 5 * Scale}}
    \cup {compute(f) : f \in {Tone(9), LeakyTone(9), LeakyTone(8), Mix, Noisy,
                               Detuned}}
    \cup {<< >>}

TargetPitches == {0, 57, 62, 69}

Thresholds == {0 - 100, 0, 300, 600, 800, Scale}

InitFeatures == Init

ComputeCall(audio_frame) ==
    /\ lastOp' = "compute"
    /\ lastArg' = << audio_frame >>
    /\ lastRet' = compute(audio_frame)
    /\ UNCHANGED << events, dtw, is_ready, refSource, lastScore, nloads,
                    nframes, twin, script >>
    /\ UNCHANGED audio
    /\ UNCHANGED window

F0Call(f0, confidence) ==
    /\ lastOp' = "compute_from_f0"
    /\ lastArg' = << f0, confidence >>
    /\ lastRet' = compute_from_f0(f0, confidence)
    /\ UNCHANGED << events, dtw, is_ready, refSource, lastScore, nloads,
                    nframes, twin, script >>
    /\ UNCHANGED audio
    /\ UNCHANGED window

HitCall(chroma, target_pitch, threshold) ==
    /\ lastOp' = "check_chroma_hit"
    /\ lastArg' = << chroma, target_pitch, threshold >>
    /\ lastRet' = check_chroma_hit(chroma, target_pitch, threshold)
    /\ UNCHANGED << events, dtw, is_ready, refSource, lastScore, nloads,
                    nframes, twin, script >>
    /\ UNCHANGED audio
    /\ UNCHANGED window

NextFeatures ==
    \/ \E audio_frame \in FeatureFrames : ComputeCall(audio_frame)
    \/ \E f0 \in F0Inputs, confidence \in Confidences : F0Call(f0, confidence)
    \/ \E chroma \in HitChromas, target_pitch \in TargetPitches,
          threshold \in Thresholds : HitCall(chroma, target_pitch, threshold)

SpecFeatures == InitFeatures /\ [][NextFeatures]_vars

\* --- PitchTracker.predict on its own: a tracker, a frame length and the ---
\* --- behaviour of the external estimators are drawn, predict is applied ---
SampleRates == {16000, 44100}

FrameLengths == {512, 1023, MinFrame, 1500, 2048, 2646}

\* rmvpe.py imports librosa, so an RMVPE engine implies librosa
Trackers ==
    {pt \in [sample_rate : SampleRates, rmvpe_ready : BOOLEAN,
              HAS_CREPE : BOOLEAN, has_librosa : BOOLEAN] :
        pt.rmvpe_ready => pt.has_librosa}

Environments ==
    [rmvpe : {Raises, Estimate(44000, 50), Estimate(44000, 100),
              Estimate(44000, 900)},
     crepe : {Raises, Empty, Estimate(43900, 50), Estimate(43900, 800)},
     librosa : {Raises, Estimate(44100, 50), Estimate(44100, 700)},
     yin : {[lag |-> "first", conf |-> 0], [lag |-> "last", conf |-> 600]}]

InitPitch ==
    /\ events = << >>
    /\ dtw = << >>
    /\ is_ready = FALSE
    /\ refSource = << >>
    /\ lastScore = << >>
    /\ lastOp = "call predict"
    /\ \E pt \in Trackers, n \in FrameLengths, env \in Environments :
          lastArg = << pt, n, env >>
    /\ lastRet = << >>
    /\ nloads = 0
    /\ nframes = 0
    /\ twin = << >>
    /\ script = << >>
    /\ AudioInit
    /\ WindowInit

PredictCall ==
    /\ lastOp = "call predict"
    /\ lastOp' = "predict"
    /\ lastRet' = predict(lastArg[1], lastArg[2], lastArg[3])
    /\ UNCHANGED << events, dtw, is_ready, refSource, lastScore, lastArg,
                    nloads, nframes, twin, script >>
    /\ UNCHANGED audio
    /\ UNCHANGED window

NextPitch == PredictCall

SpecPitch == InitPitch /\ [][NextPitch]_vars

\* --- the ring buffer used by one thread: whole calls of write and ---
\* --- read_latest, one after the other                              ---
MaxRingWrites == 3

RECURSIVE Flatten(_)
\* the samples of a sequence of blocks, in order
Flatten(blocks) ==
    IF blocks = << >> THEN << >> ELSE Head(blocks) \o Flatten(Tail(blocks))

\* the next block of the given length: samples are numbered from 1 in the
\* order they are captured
NextBlock(len) == [j \in 1 .. len |-> Len(Flatten(written)) + j]

BlockLengths == 0 .. (RingCapacity + 1)

ReadLengths == 0 .. RingCapacity

follower == << events, dtw, is_ready, refSource, lastScore, nloads, nframes,
               twin, script >>

RingWrite(len) ==
    /\ Len(written) < MaxRingWrites
    /\ ring' = RingBuffer_write(ring, NextBlock(len))
    /\ written' = Append(written, NextBlock(len))
    /\ lastOp' = "write"
    /\ lastArg' = len
    /\ lastRet' = << >>
    /\ UNCHANGED << producer, consumer >>
    /\ UNCHANGED follower
    /\ UNCHANGED window

RingReadLatest(n) ==
    /\ lastOp' = "read_latest"
    /\ lastArg' = n
    /\ lastRet' = RingBuffer_read_latest(ring, n)
    /\ UNCHANGED audio
    /\ UNCHANGED window
    /\ UNCHANGED follower

NextRing ==
    \/ \E len \in BlockLengths : RingWrite(len)
    \/ \E n \in ReadLengths : RingReadLatest(n)

SpecRing == Init /\ [][NextRing]_vars

\* --- the ring buffer between the audio callback thread (write) and the ---
\* --- analysis thread (read_latest): one step per statement that reads  ---
\* --- or writes a field of the buffer                                   ---
\* write: "n = len(data)" and the choice of the branch
WriteBegin(len) ==
    /\ producer.pc = "idle"
    /\ Len(written) < MaxRingWrites
    /\ producer' = [pc |-> "copy", data |-> NextBlock(len),
                    end |-> ring.write_pos + len]
    /\ written' = Append(written, NextBlock(len))
    /\ UNCHANGED << ring, consumer, lastOp, lastArg, lastRet >>
    /\ UNCHANGED follower
    /\ UNCHANGED window

\* write: the first slice assignment (lines 32, 40, 43)
WriteCopy ==
    /\ producer.pc = "copy"
    /\ LET n == Len(producer.data)
           cap == ring.capacity
           first == cap - ring.write_pos
       IN  IF n >= cap
           THEN /\ ring' = [ring EXCEPT !.buffer =
                               Store(ring.buffer, 0, producer.data, n - cap, cap)]
                /\ producer' = [producer EXCEPT !.pc = "pos"]
           ELSE IF producer.end <= cap
           THEN /\ ring' = [ring EXCEPT !.buffer =
                               Store(ring.buffer, ring.write_pos, producer.data,
                                     0, n)]
                /\ producer' = [producer EXCEPT !.pc = "pos"]
           ELSE /\ ring' = [ring EXCEPT !.buffer =
                               Store(ring.buffer, ring.write_pos, producer.data,
                                     0, first)]
                /\ producer' = [producer EXCEPT !.pc = "copy2"]
    /\ UNCHANGED << written, consumer, lastOp, lastArg, lastRet >>
    /\ UNCHANGED follower
    /\ UNCHANGED window

\* write: the second slice assignment of a block that wraps (line 44)
WriteCopyWrapped ==
    /\ producer.pc = "copy2"
    /\ LET n == Len(producer.data)
           first == ring.capacity - ring.write_pos
       IN  ring' = [ring EXCEPT !.buffer =
                       Store(ring.buffer, 0, producer.data, first, n - first)]
    /\ producer' = [producer EXCEPT !.pc = "pos"]
    /\ UNCHANGED << written, consumer, lastOp, lastArg, lastRet >>
    /\ UNCHANGED follower
    /\ UNCHANGED window

\* write: the assignment to write_pos (lines 33, 46)
WritePos ==
    /\ producer.pc = "pos"
    /\ ring' = [ring EXCEPT !.write_pos =
                    IF Len(producer.data) >= ring.capacity THEN 0
                    ELSE producer.end % ring.capacity]
    /\ producer' = [producer EXCEPT !.pc = "avail"]
    /\ UNCHANGED << written, consumer, lastOp, lastArg, lastRet >>
    /\ UNCHANGED follower
    /\ UNCHANGED window

\* write: the assignment to available (lines 34, 47), and the return
WriteAvail ==
    /\ producer.pc = "avail"
    /\ ring' = [ring EXCEPT !.available =
                    IF Len(producer.data) >= ring.capacity THEN ring.capacity
                    ELSE Min(ring.available + Len(producer.data),
                             ring.capacity)]
    /\ producer' = IdleProducer
    /\ UNCHANGED << written, consumer, lastOp, lastArg, lastRet >>
    /\ UNCHANGED follower
    /\ UNCHANGED window

\* read_latest(n) is called: "result = self.read(n)" begins
ReadBegin(n) ==
    /\ consumer.pc = "idle"
    /\ consumer' = [pc |-> "check", n |-> n, m |-> n, padding |-> FALSE,
                    read_start |-> 0]
    /\ UNCHANGED << ring, written, producer, lastOp, lastArg, lastRet >>
    /\ UNCHANGED follower
    /\ UNCHANGED window

\* the analysis thread returns from read_latest
ReadReturn(result) ==
    /\ consumer' = IdleConsumer
    /\ lastOp' = "read_latest"
    /\ lastArg' = consumer.n
    /\ lastRet' = result

\* read: "if self.available < n: return None" (line 58)
ReadCheck ==
    /\ consumer.pc = "check"
    /\ IF ring.available >= consumer.m
       THEN /\ consumer' = [consumer EXCEPT !.pc = "pos"]
            /\ UNCHANGED << lastOp, lastArg, lastRet >>
       ELSE IF ~ consumer.padding
       THEN /\ consumer' = [consumer EXCEPT !.pc = "pad"]
            /\ UNCHANGED << lastOp, lastArg, lastRet >>
       ELSE ReadReturn(PadLeft(<< >>, consumer.n))
    /\ UNCHANGED << ring, written, producer >>
    /\ UNCHANGED follower
    /\ UNCHANGED window

\* read_latest: "if self.available > 0" (line 78)
ReadPad ==
    /\ consumer.pc = "pad"
    /\ IF ring.available > 0
       THEN /\ consumer' = [consumer EXCEPT !.pc = "arg"]
            /\ UNCHANGED << lastOp, lastArg, lastRet >>
       ELSE ReadReturn(PadLeft(<< >>, consumer.n))
    /\ UNCHANGED << ring, written, producer >>
    /\ UNCHANGED follower
    /\ UNCHANGED window

\* read_latest: the argument of "self.read(self.available)" (line 79)
ReadPadArg ==
    /\ consumer.pc = "arg"
    /\ consumer' = [consumer EXCEPT !.pc = "check", !.m = ring.available,
                                    !.padding = TRUE]
    /\ UNCHANGED << ring, written, producer, lastOp, lastArg, lastRet >>
    /\ UNCHANGED follower
    /\ UNCHANGED window

\* read: "read_start = (self.write_pos - n) % self.capacity" (line 61)
ReadPos ==
    /\ consumer.pc = "pos"
    /\ consumer' = [consumer EXCEPT
                       !.pc = "copy",
                       !.read_start = (ring.write_pos - consumer.m)
                                          % ring.capacity]
    /\ UNCHANGED << ring, written, producer, lastOp, lastArg, lastRet >>
    /\ UNCHANGED follower
    /\ UNCHANGED window

\* the analysis thread leaves read_latest by an exception
ReadRaise(error) ==
    /\ consumer' = IdleConsumer
    /\ lastOp' = "read_latest raised"
    /\ lastArg' = consumer.n
    /\ lastRet' = error

\* read: the copy of the buffer (lines 62-69), and the return of
\* read_latest, zero-padded on the left after a short read;
\* "data[-len(actual):] = actual" (line 81) raises ValueError when actual
\* is longer than data, whose slice has only n places
ReadCopy ==
    /\ consumer.pc = "copy"
    /\ IF consumer.padding /\ consumer.m > consumer.n
       THEN ReadRaise("ValueError")
       ELSE ReadReturn(PadLeft(CopyOut(ring.buffer, ring.capacity,
                                       consumer.read_start, consumer.m),
                               consumer.n))
    /\ UNCHANGED << ring, written, producer >>
    /\ UNCHANGED follower
    /\ UNCHANGED window

NextRingThreads ==
    \/ \E len \in BlockLengths : WriteBegin(len)
    \/ WriteCopy
    \/ WriteCopyWrapped
    \/ WritePos
    \/ WriteAvail
    \/ \E n \in ReadLengths : ReadBegin(n)
    \/ ReadCheck
    \/ ReadPad
    \/ ReadPadArg
    \/ ReadPos
    \/ ReadCopy

SpecRingThreads == Init /\ [][NextRingThreads]_vars

\* ------------------------------------------------------------------------
\* The command queue of ScoreView
\* ------------------------------------------------------------------------
MaxCommands == 4

\* the JavaScript commands of the public API (play_pause, stop, set_track)
Commands == {"playPause()", "stop()", "setTrack(0)"}

\* ScoreView._on_web_ready without the clear of the buffer
ScoreView__on_web_ready_keeps_pending(view, js) ==
    [view |-> [view EXCEPT !.is_ready = TRUE],
     js |-> js \o view.pending_commands]

\* ScoreView._on_web_ready on the view and on the page's command stream:
\* ready, every buffered command run in list order, the buffer cleared
ScoreView__on_web_ready(view, js) ==
    [view |-> [is_ready |-> TRUE, pending_commands |-> << >>],
     js |-> js \o view.pending_commands]

\* ScoreView._run_js on the view and on the page's command stream
ScoreView__run_js(view, js, code) ==
    IF view.is_ready
    THEN [view |-> view, js |-> Append(js, code)]
    ELSE [view |-> [view EXCEPT !.pending_commands = Append(@, code)],
          js |-> js]

\* the follower's and the session's side of the state
behind == << events, dtw, is_ready, refSource, lastScore, nloads, nframes,
             twin, script, btn_practice, practice_session >>

\* the bridge's webReady signal arrives
_on_web_ready ==
    LET done == ScoreView__on_web_ready(score_view, page)
    IN  /\ score_view' = done.view
        /\ page' = done.js
        /\ lastOp' = "_on_web_ready"
        /\ lastArg' = << >>
        /\ lastRet' = << >>
        /\ UNCHANGED issued
        /\ UNCHANGED behind
        /\ UNCHANGED audio

\* a call of the public API that ends in _run_js(code)
_run_js(code) ==
    LET done == ScoreView__run_js(score_view, page, code)
    IN  /\ Len(issued) < MaxCommands
        /\ score_view' = done.view
        /\ page' = done.js
        /\ issued' = Append(issued, code)
        /\ lastOp' = "_run_js"
        /\ lastArg' = code
        /\ lastRet' = << >>
        /\ UNCHANGED behind
        /\ UNCHANGED audio

NextView ==
    \/ \E code \in Commands : _run_js(code)
    \/ _on_web_ready

SpecView == Init /\ [][NextView]_vars

\* ------------------------------------------------------------------------
\* PracticeSession (src/guitar-pro/src/engine/practice.py)
\* ------------------------------------------------------------------------
POINTS_PER_HIT == 100

COMBO_MULTIPLIER_step == 10

\* PracticeSession.start
PracticeSession_start(ps, total_notes) ==
    [hits |-> 0, misses |-> 0, combo |-> 0, max_combo |-> 0, score |-> 0,
     total_notes |-> total_notes, active |-> TRUE]

\* PracticeSession.stop
PracticeSession_stop(ps) == [ps EXCEPT !.active = FALSE]

RECURSIVE TwoToThe(_)
\* 2 ** k
TwoToThe(k) == IF k = 0 THEN 1 ELSE 2 * TwoToThe(k - 1)

\* a multiplier that goes on doubling
multiplier_uncapped(combo) == TwoToThe(combo \div COMBO_MULTIPLIER_step)

\* "min(8, 2 ** (self.combo // 10))"
multiplier(combo) == Min(8, TwoToThe(combo \div COMBO_MULTIPLIER_step))

\* PracticeSession.register_hit
PracticeSession_register_hit(ps) ==
    IF ~ ps.active THEN ps
    ELSE LET combo == ps.combo + 1
         IN  [ps EXCEPT !.hits = @ + 1,
                        !.combo = combo,
                        !.max_combo = IF combo > @ THEN combo ELSE @,
                        !.score = @ + POINTS_PER_HIT * multiplier(combo)]

\* PracticeSession.register_miss
PracticeSession_register_miss(ps) ==
    IF ~ ps.active THEN ps
    ELSE [ps EXCEPT !.misses = @ + 1, !.combo = 0]

\* ------------------------------------------------------------------------
\* MainWindow: score data, the practice button, the refresh timer
\* ------------------------------------------------------------------------
MaxClicks == 3

WindowScores == {<< EvA >>, << EvA, EvD >>, << EvZero >>}

\* MainWindow._on_score_data_received: the events of the score the page
\* has rendered go to the follower
_on_score_data_received(evs) ==
    /\ evs # << >>
    /\ load_score_from_midi_events(evs)

\* a click on the practice button: the button changes its checked state
\* (recorded in script) and MainWindow._toggle_practice runs
_toggle_practice ==
    /\ Len(script) < MaxClicks
    /\ script' = Append(script, ~ btn_practice)
    /\ btn_practice' = ~ btn_practice
    /\ IF btn_practice'
       THEN /\ dtw' = IF dtw # << >> THEN << OnlineDTW_reset(dtw[1]) >>
                      ELSE dtw
            /\ practice_session' =
                   PracticeSession_start(practice_session, Len(events))
       ELSE /\ practice_session' = PracticeSession_stop(practice_session)
            /\ UNCHANGED dtw
    /\ lastOp' = "_toggle_practice"
    /\ lastArg' = IF dtw # << >> THEN dtw[1].current_position ELSE 0 - 1
    /\ lastRet' = << >>
    /\ UNCHANGED << events, is_ready, refSource, lastScore, nloads, nframes,
                    twin >>
    /\ UNCHANGED << score_view, page, issued >>
    /\ UNCHANGED audio

\* MainWindow._update_ui, its score-following part: a frame goes to the
\* follower only while the follower is ready and the practice button is
\* checked
_update_ui(audio_frame) ==
    /\ is_ready
    /\ btn_practice
    /\ process_frame(audio_frame)

NextWindow ==
    \/ \E evs \in WindowScores : _on_score_data_received(evs)
    \/ _toggle_practice
    \/ \E audio_frame \in Frames : _update_ui(audio_frame)
    \/ reset

SpecWindow == Init /\ [][NextWindow]_vars

\* --- PracticeSession on its own: its four operations in any order ---
MaxHits == 42

MaxMisses == 1

SessionTotals == {0, 4}

\* every variable but practice_session and the record of the latest call
others ==
    << events, dtw, is_ready, refSource, lastScore, nloads, nframes, twin,
       script, btn_practice, score_view, page, issued >>

\* a call on the session: its state afterwards and what it returned
\* (<< >> for None)
SessionCall(op, arg, after, result) ==
    /\ practice_session' = after
    /\ lastOp' = op
    /\ lastArg' = arg
    /\ lastRet' = result
    /\ UNCHANGED others
    /\ UNCHANGED audio

start(total_notes) ==
    SessionCall("start", total_notes,
                PracticeSession_start(practice_session, total_notes), << >>)

stop ==
    SessionCall("stop", << >>, PracticeSession_stop(practice_session), << >>)

register_hit(note_id) ==
    LET after == PracticeSession_register_hit(practice_session)
    IN  /\ practice_session.hits < MaxHits
        /\ SessionCall("register_hit", note_id, after,
                       IF ~ practice_session.active THEN << >>
                       ELSE [type |-> "hit", combo |-> after.combo,
                             score |-> after.score,
                             points |-> after.score - practice_session.score])

register_miss ==
    LET after == PracticeSession_register_miss(practice_session)
    IN  /\ practice_session.misses < MaxMisses
        /\ SessionCall("register_miss", << >>, after,
                       IF ~ practice_session.active THEN << >>
                       ELSE [type |-> "miss", combo |-> 0,
                             score |-> after.score])

NextPractice ==
    \/ \E total_notes \in SessionTotals : start(total_notes)
    \/ stop
    \/ \E note_id \in {1} : register_hit(note_id)
    \/ register_miss

SpecPractice == Init /\ [][NextPractice]_vars

\* ------------------------------------------------------------------------
\* Properties
\* ------------------------------------------------------------------------
\* the search window of a step taken by engine d
Window(d) == Max(0, d.current_position - d.radius)
             .. (Min(d.N, d.current_position + 2 * d.radius) - 1)

Finite(S) == {x \in S : x # Inf}

\* C1: after reset(), whatever steps came before, the engine is back at
\* position 0 with accumulated cost [0, +inf, ..., +inf] of length N: it
\* equals a freshly constructed engine over the same reference.
C1_ResetReinitializes ==
    (lastOp = "reset" /\ dtw # << >>) =>
        /\ dtw[1].current_position = 0
        /\ DOMAIN dtw[1].accumulated_cost = 0 .. (dtw[1].N - 1)
        /\ dtw[1].accumulated_cost[0] = 0
        /\ \A i \in 1 .. (dtw[1].N - 1) : dtw[1].accumulated_cost[i] = Inf
        /\ dtw[1] = OnlineDTW(dtw[1].ref, FollowerRadius)

\* a reset that found the engine past the search radius
C1_Witness ==
    /\ lastOp = "reset"
    /\ dtw # << >>
    /\ lastArg > DefaultRadius

\* C2: an engine that was stepped and then reset, and a fresh engine over
\* the same reference, return the same position at every step when both
\* are fed the same live chroma vectors.
C2_SameInputSamePositions ==
    lastOp = "both.step" =>
        /\ lastRet[1] = lastRet[2]
        /\ dtw[1].current_position = twin[1].current_position

\* the last common step, both engines off the start, after a reset of an
\* engine that had been stepped
C2_Witness ==
    /\ lastOp = "both.step"
    /\ script[2] = MaxWarm
    /\ script[3] = MaxLock
    /\ lastRet[2] > 0

\* the minimum over the valid predecessors of index i, for local cost c
C3_Expected(old, c, i) ==
    LET cands == {AddCost(old[i], 4 * c)}
                 \cup (IF i - 1 >= 0 THEN {AddCost(old[i - 1], 2 * c)} ELSE {})
                 \cup (IF i - 2 >= 0 THEN {AddCost(old[i - 2], 3 * c)} ELSE {})
    IN  CHOOSE m \in cands : \A x \in cands : m <= x

\* C3: in every step, for every index i of the search window, the new
\* accumulated cost is the least of old[i] + 2 cost[i], old[i-1] + cost[i]
\* (if i >= 1) and old[i-2] + 1.5 cost[i] (if i >= 2), with
\* cost[i] = 1 - dot(reference[i], live).
C3_StepRecurrence ==
    [][(lastOp' = "process_frame" /\ is_ready) =>
          LET d == dtw[1]
              live == compute(lastArg')
          IN  \A i \in Window(d) :
                  dtw'[1].accumulated_cost[i] =
                      C3_Expected(d.accumulated_cost,
                                  Scale - Dot(d.ref[i], live), i)]_vars

\* a step on a tonal frame whose window left out both ends of the reference
C3_Witness ==
    /\ lastOp = "process_frame"
    /\ lastArg # Silence
    /\ dtw[1].accumulated_cost[0] = Inf
    /\ dtw[1].accumulated_cost[dtw[1].N - 1] = Inf
    /\ dtw[1].accumulated_cost[dtw[1].current_position] # Inf

\* C4: after every step the index returned (reported as estimated time) is
\* the new current_position; it lies in the window [max(0, p - radius),
\* min(N, p + 2 radius)) of the previous position p and no entry of the new
\* accumulated cost in that window is smaller than the one it points at.
C4_ArgminInWindow ==
    [][(lastOp' = "process_frame" /\ is_ready) =>
          LET d == dtw[1]
              p == d.current_position
              new == dtw'[1].accumulated_cost
              pos == dtw'[1].current_position
          IN  /\ lastRet'[1] * fps = pos * TicksPerSecond
              /\ pos \in Window(d)
              /\ \A j \in Window(d) : new[pos] <= new[j]
              /\ 0 <= pos /\ pos < d.N
              /\ p - d.radius <= pos /\ pos < p + 2 * d.radius]_vars

\* a step that left the position more than a radius into the score, so
\* that the window it searched began after reference frame 0
C4_Witness ==
    /\ lastOp = "process_frame"
    /\ dtw[1].current_position > DefaultRadius + 1
    /\ lastRet[1] * fps = dtw[1].current_position * TicksPerSecond
    /\ dtw[1].accumulated_cost[1] = Inf

\* C5: a step on an all-zero live chroma vector, or one that leaves every
\* accumulated cost of the window at +inf, does not advance the position.
C5_SilenceDoesNotAdvance ==
    [][(/\ lastOp' = "process_frame"
        /\ is_ready
        /\ \/ compute(lastArg') = ZeroChroma
           \/ Finite({dtw'[1].accumulated_cost[i] : i \in Window(dtw[1])}) = {})
       => dtw'[1].current_position <= dtw[1].current_position]_vars

\* C6: once the score [(0, 1, 69, "n1")] is loaded the follower is ready,
\* and every frame whose chroma is compute_from_f0(440, 1.0) leaves the
\* position in reference frames 0 .. 10.
C6_SingleNoteFollowed ==
    (nloads > 0 /\ lastScore = N1Score) =>
        /\ is_ready
        /\ (/\ lastOp = "process_frame"
            /\ compute(lastArg) = compute_from_f0(440 * 100, Scale))
           => dtw[1].current_position \in 0 .. 10

C8_SingleNoteActive ==
    (lastOp = "get_active_notes" /\ nloads > 0 /\ lastScore = N1Score) =>
        IF 0 - NoteTolerance <= lastArg /\ lastArg <= 20 + NoteTolerance
        THEN /\ Len(lastRet) = 1
             /\ lastRet[1].start = 0
             /\ lastRet[1].dur = 20
             /\ lastRet[1].pitch = 69
        ELSE lastRet = << >>

\* the validation of section 4.4: at least 3 fields, start and duration
\* floats that are no NaN, pitch an int
C9_Valid(e) ==
    /\ Len(e) >= 3
    /\ float_ok(e[1]) /\ ~ isnan(e[1])
    /\ float_ok(e[2]) /\ ~ isnan(e[2])
    /\ int_ok(e[3])

\* C9: a load drops exactly the events failing that validation: unless
\* none is left or their total duration is not positive, the score is
\* loaded and the stored events are the remaining ones, in order, an event
\* of 3 fields with the sentinel id; otherwise nothing is loaded.
C9_DropsExactlyInvalid ==
    lastOp = "load_score_from_midi_events" =>
        LET kept == SelectSeq(lastArg, C9_Valid)
            ends == {kept[k][1][2] + kept[k][2][2] : k \in 1 .. Len(kept)}
        IN  IF kept = << >> \/ \A x \in ends : x <= 0
            THEN lastRet # "reference loaded"
            ELSE /\ lastRet = "reference loaded"
                 /\ Len(events) = Len(kept)
                 /\ \A k \in 1 .. Len(kept) :
                       /\ events[k][1] = kept[k][1][2]
                       /\ events[k][2] = kept[k][2][2]
                       /\ events[k][3] = kept[k][3][2]
                       /\ Len(kept[k]) = 3 => events[k][4] = SentinelId

\* C10: a load that does not load a reference changes neither the stored
\* events nor the engine nor is_ready, so the stored events always are the
\* events the engine's reference was built from.
C10_AbortIsNoOp ==
    [][lastOp' = "load_score_from_midi_events" =>
          /\ (lastRet' # "reference loaded" =>
                 UNCHANGED << events, dtw, is_ready >>)
          /\ events' = refSource']_vars

\* C11: loading an empty event list changes nothing, so a follower that
\* was never loaded stays not ready; process_frame on a follower that is not
\* ready returns estimated time 0.0 and an all-zero chroma and leaves the
\* engine, the events and is_ready as they were.
C11_EmptyLoadAndNotReady ==
    [][/\ (lastOp' = "load_score_from_midi_events" /\ lastArg' = << >>) =>
            /\ UNCHANGED << events, dtw, is_ready, refSource >>
            /\ (nloads = 0 => ~ is_ready')
       /\ (lastOp' = "process_frame" /\ ~ is_ready) =>
            /\ lastRet'[1] = 0
            /\ \A c \in PitchClasses : lastRet'[2][c] = 0
            /\ UNCHANGED << events, dtw, is_ready, refSource >>]_vars

\* a tonal frame processed by a follower whose only load was an empty list
C11_Witness ==
    /\ lastOp = "process_frame"
    /\ lastArg = Tone(9)
    /\ nloads = 1
    /\ lastScore = << >>
    /\ ~ is_ready
    /\ dtw = << >>

\* C12: after a successful load the reference matrix of the engine has
\* ceil(total_duration * 10) + 5 rows of 12 columns, total_duration being
\* the largest start + duration of the valid events.
C12_RowCount ==
    (lastOp = "load_score_from_midi_events" /\ lastRet = "reference loaded") =>
        LET ref == dtw[1].ref
            rows == Cardinality(DOMAIN ref)
            ends == {events[k][1] + events[k][2] : k \in 1 .. Len(events)}
            total == CHOOSE x \in ends : \A y \in ends : x >= y
            k == rows - 5
        IN  /\ DOMAIN ref = 0 .. (rows - 1)
            /\ dtw[1].N = rows
            /\ k * TicksPerSecond >= total * 10
            /\ (k - 1) * TicksPerSecond < total * 10
            /\ \A r \in DOMAIN ref : DOMAIN ref[r] = 0 .. 11

\* a load of a score lasting 0.75 s: 7.5 frames, rounded up to 8, plus 5
C12_Witness ==
    /\ lastOp = "load_score_from_midi_events"
    /\ lastRet = "reference loaded"
    /\ lastScore = << EvHalf, EvBack >>
    /\ dtw[1].N = 13

\* C13: after a successful load, every row of the reference matrix that
\* lies in [round(start * 10), round((start + duration) * 10)] of a valid
\* event is non-zero in the column of the event's pitch class, a row is
\* all-zero exactly when no valid event covers it, and every non-zero row
\* has norm 1 (to within 1 %).
C13_ReferenceIsOccupancy ==
    (lastOp = "load_score_from_midi_events" /\ lastRet = "reference loaded") =>
        LET ref == dtw[1].ref
            Covers(e, r) ==
                /\ RoundHalfEven(e[1], 2) <= r
                /\ r <= RoundHalfEven(e[1] + e[2], 2)
        IN  /\ \A k \in 1 .. Len(events), r \in DOMAIN ref :
                  Covers(events[k], r) => ref[r][events[k][3] % 12] > 0
            /\ \A r \in DOMAIN ref :
                  (ref[r] = ZeroChroma)
                      <=> (\A k \in 1 .. Len(events) : ~ Covers(events[k], r))
            /\ \A r \in DOMAIN ref :
                  ref[r] # ZeroChroma =>
                      /\ Norm(ref[r]) * 100 >= 99 * Scale
                      /\ Norm(ref[r]) * 100 <= 101 * Scale

\* C14: check_chroma_hit answers False for every chroma vector whose 12
\* bins hold one common value, for every target pitch and threshold.
C14_FlatChromaRejected ==
    (/\ lastOp = "check_chroma_hit"
     /\ DOMAIN lastArg[1] = PitchClasses
     /\ \A c \in PitchClasses : lastArg[1][c] = lastArg[1][0])
        => lastRet = FALSE

\* a flat chroma loud enough to pass the silence test, with the target bin
\* above the threshold
C14_Witness ==
    /\ lastOp = "check_chroma_hit"
    /\ DOMAIN lastArg[1] = PitchClasses
    /\ \A c \in PitchClasses : lastArg[1][c] = Scale
    /\ lastArg[2] = 69
    /\ lastArg[3] = 600
    /\ lastRet = FALSE

RECURSIVE Pow2(_)
Pow2(k) == IF k = 0 THEN 1 ELSE 2 * Pow2(k - 1)

\* equal-tempered frequencies of C4 .. B4 in 1/100 Hz, by pitch class
C15_NoteHz ==
    [b \in 0 .. 11 |->
        CASE b = 0 -> 26163 [] b = 1 -> 27718 [] b = 2 -> 29366
          [] b = 3 -> 31113 [] b = 4 -> 32963 [] b = 5 -> 34923
          [] b = 6 -> 36999 [] b = 7 -> 39200 [] b = 8 -> 41530
          [] b = 9 -> 44000 [] b = 10 -> 46616 [] b = 11 -> 49388]

\* f, moved by whole octaves, is less than a quarter tone from note b
C15_NearNote(f, b) ==
    \/ \E k \in 0 .. 5 :
          /\ f * Pow2(k) < 60000
          /\ 1000 * f * Pow2(k) >= 972 * C15_NoteHz[b]
          /\ 1000 * f * Pow2(k) < 1029 * C15_NoteHz[b]
    \/ \E k \in 1 .. 3 :
          /\ 1000 * f >= 972 * C15_NoteHz[b] * Pow2(k)
          /\ 1000 * f < 1029 * C15_NoteHz[b] * Pow2(k)

\* C15: compute_from_f0(f, c) is all-zero when f <= 30 Hz or c <= 0.1;
\* otherwise its whole mass is in the one bin of the note nearest to f
\* (bin 9 for 440 Hz), where it is 1.0.
C15_F0Chroma ==
    lastOp = "compute_from_f0" =>
        LET f == lastArg[1]
            c == lastArg[2]
        IN  IF f <= 3000 \/ 10 * c <= Scale
            THEN \A b \in 0 .. 11 : lastRet[b] = 0
            ELSE /\ \E b \in 0 .. 11 :
                      /\ C15_NearNote(f, b)
                      /\ lastRet[b] = Scale
                      /\ \A o \in 0 .. 11 : o # b => lastRet[o] = 0
                 /\ (f = 44000 /\ c = Scale) => lastRet[9] = Scale

\* compute_from_f0(440.0, 1.0)
C15_Witness ==
    /\ lastOp = "compute_from_f0"
    /\ lastArg = << 44000, Scale >>
    /\ lastRet[9] = Scale

\* C16: every vector returned by compute or compute_from_f0 is all-zero or
\* of norm 1 (to within 1 %), and has no negative component.
C16_ZeroOrUnit ==
    lastOp \in {"compute", "compute_from_f0"} =>
        /\ \A c \in PitchClasses : lastRet[c] >= 0
        /\ \/ \A c \in PitchClasses : lastRet[c] = 0
           \/ /\ Norm(lastRet) * 100 >= 99 * Scale
              /\ Norm(lastRet) * 100 <= 101 * Scale

\* compute on a frame with energy in all twelve pitch classes
C16_Witness ==
    /\ lastOp = "compute"
    /\ lastArg = << Noisy >>
    /\ \A c \in PitchClasses : lastRet[c] > 0

\* C17: PitchTracker.predict never raises: a frame shorter than 1024
\* samples yields (0.0, 0.0), and for every longer frame, whichever
\* estimators are installed and whichever of them fail, a (frequency,
\* confidence) pair is returned.
C17_PredictNeverRaises ==
    lastOp = "predict" =>
        /\ lastRet.kind = "return"
        /\ lastArg[2] < 1024 => lastRet.value = << 0, 0 >>

\* the place of an estimator in the chain
C18_Rank(t) ==
    CASE t = "rmvpe" -> 1 [] t = "crepe" -> 2
      [] t = "librosa_yin" -> 3 [] t = "yin_custom" -> 3

\* a neural tier that is installed and whose result clears the floor
C18_Confident(pt, env, t) ==
    LET out == IF t = "rmvpe" THEN env.rmvpe ELSE env.crepe
    IN  /\ IF t = "rmvpe" THEN pt.rmvpe_ready ELSE pt.HAS_CREPE
        /\ out.kind = "estimate"
        /\ out.conf * 10 > Scale

\* C18: predict runs its estimators in the order RMVPE, CREPE, classical
\* fallback; the estimator that answers is the last one run; the answer of
\* a neural tier is returned only with a confidence above 0.1; and a tier
\* answers only if no tier before it was installed and confident.
C18_FirstConfidentWins ==
    (lastOp = "predict" /\ lastRet.kind = "return" /\ lastArg[2] >= 1024) =>
        LET ran == lastRet.ran
            tier == lastRet.tier
        IN  /\ ran # << >>
            /\ tier = ran[Len(ran)]
            /\ \A i, j \in 1 .. Len(ran) :
                  i < j => C18_Rank(ran[i]) <= C18_Rank(ran[j])
            /\ tier \in {"rmvpe", "crepe"} => lastRet.value[2] * 10 > Scale
            /\ \A h \in {"rmvpe", "crepe"} :
                  C18_Rank(h) < C18_Rank(tier)
                      => ~ C18_Confident(lastArg[1], lastArg[3], h)

\* C19: read_latest(n), n <= capacity, returns n samples: the last n
\* samples of everything written so far, in the order written, preceded by
\* zeros where fewer than n samples were written.
C19_ReadLatestIsTail ==
    lastOp = "read_latest" =>
        LET stream == Flatten(written)
            T == Len(stream)
            n == lastArg
        IN  /\ Len(lastRet) = n
            /\ \A j \in 1 .. n :
                  lastRet[j] = IF j > n - T THEN stream[T - n + j] ELSE 0

\* a read of a whole buffer that has overflowed and whose write position
\* is inside the array
C19_Witness ==
    /\ lastOp = "read_latest"
    /\ lastArg = RingCapacity
    /\ Len(Flatten(written)) > RingCapacity
    /\ ring.write_pos # 0
    /\ lastRet[RingCapacity] = Len(Flatten(written))

\* C20: with write and read_latest running in two threads, every read
\* returns consecutive samples of the stream (after its leading zeros),
\* never older samples after newer ones.
C20_NoTornRead ==
    lastOp = "read_latest" =>
        \A j \in 1 .. (Len(lastRet) - 1) :
            lastRet[j] # 0 => lastRet[j + 1] = lastRet[j] + 1

\* C21: the commands the page has been given are, before the page is
\* ready, none, with every issued command waiting in the buffer in issue
\* order; once it is ready they are exactly the issued commands, in issue
\* order, each once, and the buffer is empty.
C21_QueueOrder ==
    IF score_view.is_ready
    THEN /\ page = issued
         /\ score_view.pending_commands = << >>
    ELSE /\ page = << >>
         /\ score_view.pending_commands = issued

\* the page has just reported ready with two different commands issued,
\* and both have been run
C21_Witness ==
    /\ score_view.is_ready
    /\ lastOp = "_on_web_ready"
    /\ Len(issued) = 2
    /\ issued[1] # issued[2]
    /\ Len(page) = 2

\* 0.1 s in ticks
C22_Tolerance == TicksPerSecond \div 10

\* C22: get_active_notes(t) returns the stored events whose interval
\* [start - 0.1 s, start + duration + 0.1 s], ends included, contains t,
\* in stored order, each as its start, duration, pitch and id; nothing when
\* no events are stored; and it leaves the follower's state as it was.
C22_ActiveNotes ==
    [][lastOp' = "get_active_notes" =>
          LET t == lastArg'
              Contains(e) == /\ e[1] - C22_Tolerance <= t
                             /\ t <= e[1] + e[2] + C22_Tolerance
              hits == SelectSeq(events, Contains)
          IN  /\ Len(lastRet') = Len(hits)
              /\ \A k \in 1 .. Len(hits) :
                    lastRet'[k] = [start |-> hits[k][1], dur |-> hits[k][2],
                                   pitch |-> hits[k][3], id |-> hits[k][4]]
              /\ events = << >> => lastRet' = << >>
              /\ UNCHANGED << events, dtw, is_ready >>]_vars

\* a query 0.1 s after the end of the first of three notes and 0.1 s
\* after the start of the second: both are reported, the third is not
C22_Witness ==
    /\ lastOp = "get_active_notes"
    /\ lastArg = 22
    /\ Len(events) > 2
    /\ Len(lastRet) = 2
    /\ lastRet[1].id = 1
    /\ lastRet[2].id = 2

\* C23: check_chroma_hit answers True only for a vector that passes both
\* gates (largest bin at least 0.3, largest bin at least 2.5 times the
\* mean) and has the target bin, or one of the two bins next to it, above
\* the threshold by itself.
C23_HitNeedsOneBin ==
    (lastOp = "check_chroma_hit" /\ lastRet = TRUE) =>
        LET chroma == lastArg[1]
            target_idx == lastArg[2] % 12
            threshold == lastArg[3]
        IN  /\ np_max(chroma) * 10 >= 3 * Scale
            /\ 2 * n_chroma * np_max(chroma) >= 5 * SumTo(chroma, n_chroma)
            /\ \E b \in {(target_idx + 11) % 12, target_idx,
                         (target_idx + 1) % 12} :
                  chroma[b] > threshold

\* C24: in the first step after construction or reset (position 0, cost
\* [0, +inf, ...]) neither the stay nor the advance-by-2 transition gives
\* a candidate, so after it the only reference frame with a finite
\* accumulated cost is frame 1, the one reached by advancing by one.
C24_OnlyAdvanceByOneAtStart ==
    [][(/\ lastOp' = "process_frame"
        /\ is_ready
        /\ dtw[1].current_position = 0
        /\ dtw[1].accumulated_cost = InitialCost(dtw[1].N))
       => {i \in 0 .. (dtw[1].N - 1) : dtw'[1].accumulated_cost[i] # Inf}
              = {1}]_vars

\* C25: the engine the follower constructs with radius 100 recomputes, in
\* every step from position p, every index of [max(0, p - 100),
\* min(N, p + 200)) from the three transitions.
C25_ConstructorRadiusUsed ==
    [][(lastOp' = "process_frame" /\ is_ready) =>
          LET d == dtw[1]
              p == d.current_position
              live == compute(lastArg')
          IN  \A i \in Max(0, p - FollowerRadius)
                       .. (Min(d.N, p + 2 * FollowerRadius) - 1) :
                  dtw'[1].accumulated_cost[i] =
                      C3_Expected(d.accumulated_cost,
                                  Scale - Dot(d.ref[i], live), i)]_vars

\* the initial alignment state: position 0, cost [0, +inf, ...]
C26_Initial(d) ==
    /\ d.current_position = 0
    /\ d.accumulated_cost = InitialCost(d.N)

\* C26: the alignment state is initial right after every successful load,
\* after every reset and after every switching on of practice mode, and so
\* it is at the first frame processed after practice mode is switched on.
C26_InitialAtSessionStart ==
    [][/\ (lastOp' = "load_score_from_midi_events"
           /\ lastRet' = "reference loaded")
          => (dtw' # << >> /\ C26_Initial(dtw'[1]))
       /\ (lastOp' = "reset" /\ dtw' # << >>) => C26_Initial(dtw'[1])
       /\ (lastOp' = "_toggle_practice" /\ btn_practice' /\ dtw' # << >>)
          => C26_Initial(dtw'[1])
       /\ (lastOp' = "process_frame" /\ lastOp = "_toggle_practice")
          => C26_Initial(dtw[1])]_vars

\* practice mode switched on for the second time, over an engine that the
\* first session had moved off the start
C26_Witness ==
    /\ lastOp = "_toggle_practice"
    /\ btn_practice
    /\ Len(script) = 3
    /\ lastArg > 0
    /\ dtw[1].current_position = 0

\* C27: after every step on a chroma vector (unit norm or zero) the
\* accumulated cost at the new current_position is finite and not
\* negative, every entry outside the window the step recomputed is +inf,
\* and the window is never all +inf.
C27_PositionCostFinite ==
    [][(lastOp' = "process_frame" /\ is_ready) =>
          LET d == dtw[1]
              new == dtw'[1].accumulated_cost
              pos == dtw'[1].current_position
          IN  /\ new[pos] # Inf
              /\ new[pos] >= 0
              /\ \A i \in (0 .. (d.N - 1)) \ Window(d) : new[i] = Inf
              /\ \E i \in Window(d) : new[i] # Inf
              /\ \A i \in 0 .. (d.N - 1) : new[i] >= 0]_vars

\* a step on a tone, taken past the lead-in, whose window began after
\* frame 0 and ended before the last frame
C27_Witness ==
    /\ lastOp = "process_frame"
    /\ nframes > LeadIn
    /\ lastArg \in {Tone(9), Tone(2)}
    /\ dtw[1].accumulated_cost[0] = Inf
    /\ dtw[1].accumulated_cost[dtw[1].N - 1] = Inf
    /\ dtw[1].accumulated_cost[dtw[1].current_position] \in 0 .. (Inf - 1)

\* the number of samples written since the latest block of at least
\* capacity samples, or since construction
RECURSIVE C28_SinceOversized(_)
C28_SinceOversized(blocks) ==
    IF blocks = << >> THEN 0
    ELSE LET n == Len(blocks[Len(blocks)])
         IN  IF n >= RingCapacity THEN 0
             ELSE n + C28_SinceOversized(SubSeq(blocks, 1, Len(blocks) - 1))

\* C28 as stated: after any writes 0 <= write_pos < capacity,
\* 0 <= available <= capacity, available = min(total written, capacity),
\* and, unless the latest write was of at least capacity samples (when
\* write_pos = 0 and the newest sample is at index capacity - 1),
\* write_pos = total written mod capacity.
C28_WritePosIsTotalModCapacity ==
    LET total == Len(Flatten(written))
        last == IF written = << >> THEN 0 ELSE Len(written[Len(written)])
    IN  /\ 0 <= ring.write_pos /\ ring.write_pos < ring.capacity
        /\ 0 <= ring.available /\ ring.available <= ring.capacity
        /\ ring.available = Min(total, ring.capacity)
        /\ IF last >= ring.capacity
           THEN /\ ring.write_pos = 0
                /\ ring.buffer[ring.capacity - 1] = total
           ELSE ring.write_pos = total % ring.capacity

\* C28, amended: as above, but write_pos is the number of samples written
\* since the latest write of at least capacity samples (or since
\* construction) mod capacity; the newest sample is always the one just
\* before write_pos.
C28_WritePosSinceOversized ==
    LET total == Len(Flatten(written))
        last == IF written = << >> THEN 0 ELSE Len(written[Len(written)])
    IN  /\ 0 <= ring.write_pos /\ ring.write_pos < ring.capacity
        /\ 0 <= ring.available /\ ring.available <= ring.capacity
        /\ ring.available = Min(total, ring.capacity)
        /\ ring.write_pos = C28_SinceOversized(written) % ring.capacity
        /\ last >= ring.capacity =>
              /\ ring.write_pos = 0
              /\ ring.buffer[ring.capacity - 1] = total
        /\ total > 0 =>
              ring.buffer[(ring.write_pos + ring.capacity - 1)
                              % ring.capacity] = total

\* a block longer than the buffer followed by a short one
C28_Witness ==
    /\ Len(written) = 2
    /\ Len(written[1]) = RingCapacity + 1
    /\ Len(written[2]) = 1
    /\ ring.write_pos = 1
    /\ lastOp = "write"

\* C29: with write running in the other thread, read_latest(n) never
\* raises and returns exactly n samples.
C29_ReadLatestNeverRaises ==
    /\ lastOp # "read_latest raised"
    /\ lastOp = "read_latest" => Len(lastRet) = lastArg

\* C30: on a PracticeSession, register_hit and register_miss change no
\* counter while the session is inactive; combo <= max_combo and
\* combo <= hits always; a hit on an active session adds 1 to hits and to
\* combo and 100 * min(8, 2^(combo div 10)) to score, combo taken after
\* the increment; score never decreases except by start; a miss on an
\* active session sets combo to 0 and leaves score, hits and max_combo;
\* start sets hits, misses, combo, max_combo and score to 0.
C30_Counters ==
    [][LET ps == practice_session
           after == practice_session'
       IN  /\ (lastOp' \in {"register_hit", "register_miss"} /\ ~ ps.active)
              => after = ps
           /\ after.combo <= after.max_combo
           /\ after.combo <= after.hits
           /\ (lastOp' = "register_hit" /\ ps.active) =>
                 /\ after.hits = ps.hits + 1
                 /\ after.combo = ps.combo + 1
                 /\ after.score = ps.score
                        + 100 * Min(8, Pow2(after.combo \div 10))
                 /\ after.misses = ps.misses
           /\ lastOp' # "start" => after.score >= ps.score
           /\ (lastOp' = "register_miss" /\ ps.active) =>
                 /\ after.combo = 0
                 /\ after.misses = ps.misses + 1
                 /\ after.score = ps.score
                 /\ after.hits = ps.hits
                 /\ after.max_combo = ps.max_combo
           /\ lastOp' = "start" =>
                 /\ after.hits = 0 /\ after.misses = 0 /\ after.combo = 0
                 /\ after.max_combo = 0 /\ after.score = 0]_vars

\* the 40th hit in a row: the multiplier has been held at 8 since the 30th
C30_Witness ==
    /\ lastOp = "register_hit"
    /\ practice_session.active
    /\ practice_session.combo = 40
    /\ practice_session.score = 15700
    /\ lastRet.points = 800

====
